---- MODULE Spec2Model ----
(***************************************************************************)
(* Model of cfn_dbuser_provider.py: the create / update / delete handlers  *)
(* of a CloudFormation custom resource that manages one PostgreSQL login   *)
(* role.  The interpreter is Python 2 (the handlers read e.message).       *)
(*                                                                         *)
(* The target database is modelled by its committed catalogue `db` and by  *)
(* one transaction per open connection: psycopg2.connect() returns a       *)
(* connection with autocommit off, the code never calls commit() nor sets  *)
(* autocommit, and close() discards the open transaction.                  *)
(***************************************************************************)
EXTENDS Integers, Sequences, FiniteSets, TLC

(***************************************************************************)
(* Bounds                                                                  *)
(***************************************************************************)
\* number of handler invocations in one behaviour
MaxInv == 2

(***************************************************************************)
(* Python values of the event (JSON): tagged so that a string, an integer, *)
(* a boolean, a dict and a missing key are all distinct.                   *)
(***************************************************************************)
Absent == [t |-> "absent"]
StrV(x) == [t |-> "str", s |-> x]
IntV(n) == [t |-> "int", i |-> n]
BoolV(v) == [t |-> "bool", b |-> v]

\* 'k' in d
Has(v) == v.t # "absent"

\* str(v) / '%s' % v
PyStr(v) == CASE v.t = "str" -> v.s
              [] v.t = "int" -> ToString(v.i)
              [] v.t = "bool" -> (IF v.b THEN "True" ELSE "False")
              [] OTHER -> "None"

\* str.lower() on the spellings that occur in the events
lower(x) == CASE x \in {"true", "True", "TRUE"} -> "true"
              [] x \in {"false", "False", "FALSE"} -> "false"
              [] x = "Yes" -> "yes"
              [] OTHER -> x

\* 'Port' in s, for a Database property that is a string
StringsWithPort == {"Port"}
ContainsPort(x) == x \in StringsWithPort

\* the Database property as a dict
DatabaseDict(h, p, u, pw, n) ==
    [t |-> "dict", Host |-> h, Port |-> p, User |-> u, Password |-> pw, DBName |-> n]

\* the ResourceProperties dict
Properties(u, pw, wd, d) ==
    [t |-> "dict", User |-> u, Password |-> pw, WithDatabase |-> wd, Database |-> d]

\* the event envelope
Event(rt, lid, pid, props) ==
    [RequestType |-> rt, LogicalResourceId |-> lid, PhysicalResourceId |-> pid,
     ResourceProperties |-> props]

(***************************************************************************)
(* Exceptions and results of fallible steps                                *)
(***************************************************************************)
Raise(exc, msg) == [ok |-> FALSE, exc |-> exc, message |-> msg]
Ok(v) == [ok |-> TRUE, self |-> v]

(***************************************************************************)
(* class PostgresDBUser(dict)                                              *)
(***************************************************************************)
DefaultPort == 5432

\* self.update(event); self.update(event['ResourceProperties']); del ...
merge(event) ==
    IF ~Has(event.ResourceProperties)
    THEN Raise("KeyError", "ResourceProperties")
    ELSE Ok([LogicalResourceId |-> event.LogicalResourceId,
             PhysicalResourceId |-> event.PhysicalResourceId,
             User |-> event.ResourceProperties.User,
             Password |-> event.ResourceProperties.Password,
             WithDatabase |-> event.ResourceProperties.WithDatabase,
             Database |-> event.ResourceProperties.Database])

\* variant of add_defaults: WithDatabase gets no default
add_defaults_port_only(self) ==
    LET d == self.Database
    IN  IF ~Has(d)
        THEN Ok(self)
        ELSE CASE d.t = "dict" ->
                    Ok([self EXCEPT !.Database =
                                        IF ~Has(d.Port)
                                        THEN [d EXCEPT !.Port = IntV(DefaultPort)]
                                        ELSE d])
               [] d.t = "str" ->
                    IF ContainsPort(d.s)
                    THEN Ok(self)
                    ELSE Raise("TypeError", "'unicode' object does not support item assignment")
               [] OTHER ->
                    Raise("TypeError", "argument of type '" \o d.t \o "' is not iterable")

add_defaults(self) ==
    LET d == self.Database
        wd == IF ~Has(self.WithDatabase) THEN StrV("true") ELSE self.WithDatabase
    IN  IF ~Has(d)
        THEN Ok([self EXCEPT !.WithDatabase = wd])
        ELSE CASE d.t = "dict" ->
                    Ok([self EXCEPT !.Database =
                                        IF ~Has(d.Port)
                                        THEN [d EXCEPT !.Port = IntV(DefaultPort)]
                                        ELSE d,
                                    !.WithDatabase = wd])
               [] d.t = "str" ->
                    IF ContainsPort(d.s)
                    THEN Ok([self EXCEPT !.WithDatabase = wd])
                    ELSE Raise("TypeError", "'unicode' object does not support item assignment")
               [] OTHER ->
                    Raise("TypeError", "argument of type '" \o d.t \o "' is not iterable")

check_valid(self) ==
    IF ~Has(self.User) THEN Raise("ValueError", "User property is required")
    ELSE IF ~Has(self.Password) THEN Raise("ValueError", "Password property is required")
    ELSE IF Has(self.WithDatabase)
            /\ lower(PyStr(self.WithDatabase)) \notin {"true", "false"}
    THEN Raise("ValueError", "WithDatabase property \"" \o lower(PyStr(self.WithDatabase))
                             \o "\" is not a boolean")
    ELSE IF ~Has(self.Database) \/ self.Database.t # "dict"
    THEN Raise("ValueError", "Database property is required and must be an object")
    ELSE LET dbp == self.Database
         IN  IF ~Has(dbp.Host) THEN Raise("ValueError", "Host is required in Database")
             ELSE IF ~Has(dbp.Port) THEN Raise("ValueError", "Port is required in Database")
             ELSE IF dbp.Port.t # "int"
             THEN \* str.isdigit() without an instance raises
                  Raise("TypeError", "descriptor 'isdigit' of 'str' object needs an argument")
             ELSE IF ~Has(dbp.User) THEN Raise("ValueError", "User is required in Database")
             ELSE IF ~Has(dbp.Password)
             THEN Raise("ValueError", "Password is required in Database")
             ELSE IF ~Has(dbp.DBName)
             THEN Raise("ValueError", "DBName is required in Database")
             ELSE Ok(self)

\* PostgresDBUser.__init__
PostgresDBUser(event) ==
    LET m == merge(event)
    IN  IF ~m.ok THEN m
        ELSE LET a == add_defaults(m.self)
             IN  IF ~a.ok THEN a ELSE check_valid(a.self)

user(self) == self.User
password(self) == self.Password
host(self) == self.Database.Host
port(self) == self.Database.Port

with_database(self) == self.WithDatabase = StrV("true")

\* variant of url: the password is part of the token
url_password(self) ==
    "postgresql:" \o PyStr(host(self)) \o ":" \o PyStr(port(self)) \o ":"
    \o PyStr(user(self)) \o ":" \o PyStr(password(self))

url(self) ==
    IF with_database(self)
    THEN "postgresql:" \o PyStr(host(self)) \o ":" \o PyStr(port(self)) \o ":"
         \o PyStr(user(self)) \o "?user=" \o PyStr(user(self))
    ELSE "postgresql://" \o PyStr(host(self)) \o ":" \o PyStr(port(self))
         \o "?user=" \o PyStr(user(self))

\* class Response(dict); `raised` marks an invocation that ended with an
\* exception leaving the handler instead of a response
Response(status, reason, resource_id) ==
    [raised |-> FALSE, Status |-> status, Reason |-> reason,
     PhysicalResourceId |-> resource_id, exc |-> ""]
Escaped(exc, msg) ==
    [raised |-> TRUE, Status |-> "", Reason |-> msg, PhysicalResourceId |-> Absent,
     exc |-> exc]

(***************************************************************************)
(* Events delivered by the orchestrator                                    *)
(***************************************************************************)
RoleNames == {"app", "bob"}
SentinelId == "could-not-create"

AdminDatabase == DatabaseDict(StrV("db1"), Absent, StrV("admin"), StrV("y"), StrV("appdb"))
ValidProperties(u) == Properties(StrV(u), StrV("x"), Absent, AdminDatabase)
\* Password is missing
InvalidProperties(u) == Properties(StrV(u), Absent, Absent, AdminDatabase)

\* physical ids the orchestrator replays on Update and Delete
PriorIds == {StrV(SentinelId), StrV("postgresql:db1:5432:app?user=app")}

LifecycleEvents ==
    {Event("Create", StrV("DbUser"), Absent, ValidProperties(u)) : u \in RoleNames}
    \cup {Event("Create", StrV("DbUser"), Absent, InvalidProperties("app"))}
    \cup {Event("Delete", StrV("DbUser"), p, ValidProperties("app")) : p \in PriorIds}
    \cup {Event("Delete", StrV("DbUser"), StrV(SentinelId), InvalidProperties("app"))}
    \cup {Event("Update", StrV("DbUser"), p, ValidProperties("app")) : p \in PriorIds}

\* Create events that differ from one base event in one property at a time
BaseCreate == Event("Create", StrV("DbUser"), Absent,
                    Properties(StrV("app"), StrV("x"), StrV("true"),
                               DatabaseDict(StrV("db1"), IntV(5432), StrV("admin"),
                                            StrV("y"), StrV("appdb"))))
Variants(e) ==
    {e}
    \cup {[e EXCEPT !.LogicalResourceId = StrV("Other")]}
    \cup {[e EXCEPT !.ResourceProperties.User = StrV("bob")]}
    \cup {[e EXCEPT !.ResourceProperties.Password = StrV("z")]}
    \cup {[e EXCEPT !.ResourceProperties.WithDatabase = StrV("false")]}
    \cup {[e EXCEPT !.ResourceProperties.Database.Host = StrV("db2")]}
    \cup {[e EXCEPT !.ResourceProperties.Database.Port = IntV(5433)]}
    \cup {[e EXCEPT !.ResourceProperties.Database.User = StrV("root")]}
    \cup {[e EXCEPT !.ResourceProperties.Database.Password = StrV("w")]}
    \cup {[e EXCEPT !.ResourceProperties.Database.DBName = StrV("postgres")]}

\* BaseCreate with other spellings of WithDatabase, and with the optional
\* properties left out
Spellings(e) ==
    {[e EXCEPT !.ResourceProperties.WithDatabase = w] :
        w \in {StrV("True"), StrV("TRUE"), StrV("False"), BoolV(TRUE)}}
    \cup {[e EXCEPT !.ResourceProperties.WithDatabase = Absent,
                     !.ResourceProperties.Database.Port = Absent]}

\* events with one or two properties missing or of the wrong shape
Malformed(e) ==
    {[e EXCEPT !.ResourceProperties.User = Absent],
     [e EXCEPT !.ResourceProperties.Password = Absent],
     [e EXCEPT !.ResourceProperties.WithDatabase = StrV("Yes")],
     [e EXCEPT !.ResourceProperties.Database = Absent],
     [e EXCEPT !.ResourceProperties.Database = StrV("abc")],
     [e EXCEPT !.ResourceProperties.Database = StrV("Port")],
     [e EXCEPT !.ResourceProperties.Database = IntV(5)],
     [e EXCEPT !.ResourceProperties.Database.Host = Absent],
     [e EXCEPT !.ResourceProperties.Database.Host = Absent,
               !.ResourceProperties.Database.Port = Absent],
     [e EXCEPT !.ResourceProperties.Database.Port = StrV("5432")],
     [e EXCEPT !.ResourceProperties.Database.Port = StrV("abc")],
     [e EXCEPT !.ResourceProperties.Database.User = Absent],
     [e EXCEPT !.ResourceProperties.Database.Password = Absent],
     [e EXCEPT !.ResourceProperties.Database.DBName = Absent],
     [e EXCEPT !.ResourceProperties.User = Absent,
               !.ResourceProperties.Database = StrV("abc")],
     [e EXCEPT !.ResourceProperties.User = Absent,
               !.ResourceProperties.Database.Host = Absent],
     [e EXCEPT !.ResourceProperties.WithDatabase = StrV("Yes"),
               !.ResourceProperties.Database = Absent],
     [e EXCEPT !.ResourceProperties.Password = Absent,
               !.ResourceProperties.WithDatabase = Absent,
               !.ResourceProperties.Database.Port = Absent],
     [e EXCEPT !.ResourceProperties.User = StrV("")]}

DescriptorEvents ==
    Variants(BaseCreate)
    \cup Spellings(BaseCreate)
    \cup Malformed(BaseCreate)
    \cup {[BaseCreate EXCEPT !.RequestType = "Delete",
                             !.PhysicalResourceId = StrV(SentinelId),
                             !.ResourceProperties.Database = StrV("abc")]}
    \cup {[BaseCreate EXCEPT !.RequestType = "Update",
                             !.PhysicalResourceId = StrV(SentinelId)]}
    \cup {[BaseCreate EXCEPT !.RequestType = "Delete",
                             !.PhysicalResourceId = StrV(SentinelId),
                             !.ResourceProperties.User = StrV("bob")]}

EventsOf(m) == IF m = "lifecycle" THEN LifecycleEvents ELSE DescriptorEvents

(***************************************************************************)
(* State                                                                   *)
(***************************************************************************)
VARIABLES
    mode,        \* which events the orchestrator delivers
    db,          \* committed catalogue: role name -> password, or NoRole
    db0,         \* the catalogue before the first event (history)
    pc,          \* position of each invocation in its handler
    event,       \* the event of each invocation
    self,        \* the PostgresDBUser of each invocation
    connection,  \* self.connection: "unset", "open", "closed"
    acquired,    \* connections psycopg2.connect() has returned to the invocation
    txn,         \* uncommitted statement of the connection's transaction
    found,       \* what exists() returned: "unknown", "present", "absent"
    leaving,     \* how control leaves the with block
    result,      \* what the handler returned or raised
    stmts,       \* statements the invocation has sent, in order
    overlapped   \* pairs of invocations whose connections were open together (history)

vars == <<mode, db, db0, pc, event, self, connection, acquired, txn, found, leaving,
          result, stmts, overlapped>>

Invocations == 1..MaxInv

NoRole == "<none>"
NoEvent == [RequestType |-> "<none>"]
NoUser == [t |-> "absent"]
NoResult == [raised |-> FALSE, Status |-> "<none>", Reason |-> "",
             PhysicalResourceId |-> Absent, exc |-> ""]
Falling == [kind |-> "fall"]
Returning(r) == [kind |-> "return", response |-> r]
Raising(exc, msg) == [kind |-> "raise", exc |-> exc, message |-> msg]

Passwords0 == {"old"}
ConnectErrors == {"could not connect to server"}
QueryErrors == {"permission denied"}

InitCommon ==
    /\ db0 = db
    /\ pc = [i \in Invocations |-> "idle"]
    /\ event = [i \in Invocations |-> NoEvent]
    /\ self = [i \in Invocations |-> NoUser]
    /\ connection = [i \in Invocations |-> "unset"]
    /\ acquired = [i \in Invocations |-> 0]
    /\ txn = [i \in Invocations |-> "none"]
    /\ found = [i \in Invocations |-> "unknown"]
    /\ leaving = [i \in Invocations |-> Falling]
    /\ result = [i \in Invocations |-> NoResult]
    /\ stmts = [i \in Invocations |-> <<>>]
    /\ overlapped = {}

Init ==
    /\ mode = "lifecycle"
    /\ db \in {d \in [RoleNames -> Passwords0 \cup {NoRole}] : d["bob"] # NoRole}
    /\ InitCommon

InitDescriptor ==
    /\ mode = "descriptor"
    /\ db \in {[n \in RoleNames |-> NoRole],
               [n \in RoleNames |-> IF n = "bob" THEN "old" ELSE NoRole]}
    /\ InitCommon

\* The orchestrator delivers an event to a fresh invocation.  Invocations are
\* numbered in the order they start; a descriptor run is two invocations, one
\* after the other.
Delivered(i, ev) ==
    /\ pc[i] = "idle"
    /\ ev \in EventsOf(mode)
    /\ \A j \in Invocations : j < i => pc[j] # "idle"
    /\ mode = "descriptor" => i <= 2 /\ \A j \in Invocations : pc[j] \in {"idle", "done"}

role(i) == PyStr(user(self[i]))

(***************************************************************************)
(* The except clauses of the handlers                                      *)
(***************************************************************************)
\* variant of delete_except: the except clause of create copied into delete
delete_except_sentinel(ev, message) == Response("FAILED", message, StrV(SentinelId))

\* variant of delete_except: the exception's message is not passed on
delete_except_silent(ev, message) == Response("FAILED", "", ev.PhysicalResourceId)

\* variant of create_except: reason and resource id are swapped
create_except_swapped(message) ==
    Response("FAILED", SentinelId, StrV("Failed to create user, " \o message))

create_except(message) ==
    Response("FAILED", "Failed to create user, " \o message, StrV(SentinelId))
delete_except(ev, message) ==
    Response("FAILED", message, ev.PhysicalResourceId)
handler_except(ev, message) ==
    IF ev.RequestType = "Create" THEN create_except(message)
    ELSE delete_except(ev, message)

\* variant of handler_return: Delete mints the id the way Create does
handler_return_url(ev, u) == Response("SUCCESS", "", StrV(url(u)))

\* the statement after the with block
handler_return(ev, u) ==
    IF ev.RequestType = "Create" THEN Response("SUCCESS", "", StrV(url(u)))
    ELSE Response("SUCCESS", "", ev.PhysicalResourceId)

(***************************************************************************)
(* Handlers                                                                *)
(***************************************************************************)
\* create / delete up to PostgresDBUser(event)
Enter(i, ev) ==
    /\ Delivered(i, ev)
    /\ event' = [event EXCEPT ![i] = ev]
    /\ LET r == PostgresDBUser(ev)
       IN  IF r.ok
           THEN /\ self' = [self EXCEPT ![i] = r.self]
                /\ pc' = [pc EXCEPT ![i] = "connect"]
                /\ UNCHANGED result
           ELSE /\ result' = [result EXCEPT ![i] = handler_except(ev, r.message)]
                /\ pc' = [pc EXCEPT ![i] = "done"]
                /\ UNCHANGED self
    /\ UNCHANGED <<mode, db, db0, connection, acquired, txn, found, leaving, stmts, overlapped>>

create(i, ev) == ev.RequestType = "Create" /\ Enter(i, ev)

delete(i, ev) == ev.RequestType = "Delete" /\ Enter(i, ev)

\* variant of update: the handler builds the descriptor and goes on to connect
update_reconcile(i, ev) == ev.RequestType = "Update" /\ Enter(i, ev)

\* update evaluates the undefined name `reason` before it builds the Response
update(i, ev) ==
    /\ ev.RequestType = "Update"
    /\ Delivered(i, ev)
    /\ event' = [event EXCEPT ![i] = ev]
    /\ result' = [result EXCEPT
                     ![i] = Escaped("NameError", "global name 'reason' is not defined")]
    /\ pc' = [pc EXCEPT ![i] = "done"]
    /\ UNCHANGED <<mode, db, db0, self, connection, acquired, txn, found, leaving, stmts, overlapped>>

\* __enter__ -> PostgresDBUser.connect
connect(i) ==
    /\ pc[i] = "connect"
    /\ \/ /\ connection' = [connection EXCEPT ![i] = "open"]
          /\ acquired' = [acquired EXCEPT ![i] = @ + 1]
          /\ pc' = [pc EXCEPT ![i] = "exists"]
          /\ overlapped' = overlapped
                            \cup {{i, j} : j \in {k \in Invocations : connection[k] = "open"}}
          /\ UNCHANGED result
       \/ \E m \in ConnectErrors :
             /\ result' = [result EXCEPT
                              ![i] = handler_except(event[i], "Failed to connect, " \o m)]
             /\ pc' = [pc EXCEPT ![i] = "done"]
             /\ UNCHANGED <<connection, acquired, overlapped>>
    /\ UNCHANGED <<mode, db, db0, event, self, txn, found, leaving, stmts>>

\* variant of pg_user: the row test is inverted
pg_user_inverted(d, name) == IF name \in DOMAIN d /\ d[name] # NoRole THEN 0 ELSE 1

\* rows of pg_catalog.pg_user WHERE usename = user, as the transaction sees them
pg_user(d, name) == IF name \in DOMAIN d /\ d[name] # NoRole THEN 1 ELSE 0

\* PostgresDBUser.exists and the branch the handler takes on it
exists(i) ==
    /\ pc[i] = "exists"
    /\ stmts' = [stmts EXCEPT ![i] = Append(@, "SELECT")]
    /\ \/ LET present == pg_user(db, role(i)) > 0
              act == IF event[i].RequestType = "Create" THEN ~present ELSE present
          IN  /\ found' = [found EXCEPT ![i] = IF present THEN "present" ELSE "absent"]
              /\ pc' = [pc EXCEPT ![i] = IF act THEN "act" ELSE "exit"]
              /\ leaving' = [leaving EXCEPT ![i] =
                     IF event[i].RequestType = "Create" /\ present
                     THEN Returning(Response("FAILED",
                                             "User " \o role(i) \o " already exists",
                                             StrV(SentinelId)))
                     ELSE Falling]
       \/ \E m \in QueryErrors :
             /\ leaving' = [leaving EXCEPT ![i] = Raising("Error", m)]
             /\ pc' = [pc EXCEPT ![i] = "exit"]
             /\ UNCHANGED found
    /\ UNCHANGED <<mode, db, db0, event, self, connection, acquired, txn, result, overlapped>>

\* a statement on a role waits while another open transaction holds an
\* uncommitted change of that role
Blocked(i) ==
    \E j \in Invocations \ {i} :
        connection[j] = "open" /\ txn[j] # "none" /\ role(j) = role(i)

\* one CREATE ROLE / DROP ROLE statement: the error it raises, or "" 
ddl_error(d, kind, name) ==
    IF name = ""
    THEN \* AsIs substitutes nothing for the role name
         "syntax error at or near \"" \o (IF kind = "create" THEN "LOGIN" ELSE "ROLE") \o "\""
    ELSE IF kind = "create" /\ d[name] # NoRole
    THEN "role \"" \o name \o "\" already exists"
    ELSE IF kind = "drop" /\ d[name] = NoRole
    THEN "role \"" \o name \o "\" does not exist"
    ELSE ""

Statement(i, kind, sql) ==
    /\ pc[i] = "act"
    /\ ~Blocked(i)
    /\ stmts' = [stmts EXCEPT ![i] = Append(@, sql)]
    /\ pc' = [pc EXCEPT ![i] = "exit"]
    /\ \/ LET err == ddl_error(db, kind, role(i))
          IN  IF err = ""
              THEN /\ txn' = [txn EXCEPT ![i] = kind]
                   /\ UNCHANGED leaving
              ELSE /\ leaving' = [leaving EXCEPT ![i] = Raising("Error", err)]
                   /\ UNCHANGED txn
       \/ \E m \in QueryErrors :
             /\ leaving' = [leaving EXCEPT ![i] = Raising("Error", m)]
             /\ UNCHANGED txn
    /\ UNCHANGED <<mode, db, db0, event, self, connection, acquired, found, result, overlapped>>

\* variant of create_role: the statement of drop was copied into create
create_role_drop(i) == event[i].RequestType = "Create" /\ Statement(i, "drop", "DROP")

\* PostgresDBUser.create
create_role(i) == event[i].RequestType = "Create" /\ Statement(i, "create", "CREATE")

\* PostgresDBUser.drop
drop(i) == event[i].RequestType = "Delete" /\ Statement(i, "drop", "DROP")

\* variant of close: the open transaction is committed when the connection closes
close_commit(d, t, name, pw) ==
    IF t = "create" THEN [d EXCEPT ![name] = pw]
    ELSE IF t = "drop" THEN [d EXCEPT ![name] = NoRole]
    ELSE d

\* connection.close(): what becomes of the catalogue when a connection with
\* uncommitted statement `t` on role `name` (password `pw`) is closed.  The
\* connection was opened with autocommit off and nothing calls commit(), so
\* CREATE ROLE / DROP ROLE (transactional in PostgreSQL) are rolled back.
close(d, t, name, pw) == d

\* variant of exit_connection: the early return skips close
exit_connection_leak(l) == IF l.kind = "return" THEN "open" ELSE "closed"

\* __exit__: self.connection after the with block is left in way `l`
exit_connection(l) == "closed"

\* __exit__ -> close, then the handler's return
exit(i) ==
    /\ pc[i] = "exit"
    /\ connection' = [connection EXCEPT ![i] = exit_connection(leaving[i])]
    /\ db' = close(db, txn[i], role(i), PyStr(password(self[i])))
    /\ txn' = [txn EXCEPT ![i] = "none"]
    /\ result' = [result EXCEPT ![i] =
           CASE leaving[i].kind = "return" -> leaving[i].response
             [] leaving[i].kind = "raise" -> handler_except(event[i], leaving[i].message)
             [] OTHER -> handler_return(event[i], self[i])]
    /\ pc' = [pc EXCEPT ![i] = "done"]
    /\ UNCHANGED <<mode, db0, event, self, acquired, found, leaving, stmts, overlapped>>

Next ==
    \E i \in Invocations :
        \/ \E ev \in EventsOf(mode) : create(i, ev)
        \/ \E ev \in EventsOf(mode) : update(i, ev)
        \/ \E ev \in EventsOf(mode) : delete(i, ev)
        \/ connect(i)
        \/ exists(i)
        \/ create_role(i)
        \/ drop(i)
        \/ exit(i)

Spec == Init /\ [][Next]_vars

\* one Create at a time, over descriptors that differ in one property
SpecDescriptor == InitDescriptor /\ [][Next]_vars

(***************************************************************************)
(* Properties                                                              *)
(***************************************************************************)
Done(i) == pc[i] = "done"
Verb(i) == event[i].RequestType
Succeeded(i) == Done(i) /\ ~result[i].raised /\ result[i].Status = "SUCCESS"
Failed(i) == Done(i) /\ ~result[i].raised /\ result[i].Status = "FAILED"
Valid(i) == Verb(i) \in {"Create", "Delete"} /\ PostgresDBUser(event[i]).ok
Issued(i, sql) == \E k \in 1..Len(stmts[i]) : stmts[i][k] = sql

\* the role an event names, read from the event itself
EventRole(ev) ==
    IF Has(ev.ResourceProperties) /\ Has(ev.ResourceProperties.User)
    THEN PyStr(ev.ResourceProperties.User)
    ELSE NoRole

C2_CreatedRoleExists ==
    \A i \in Invocations :
        (Verb(i) = "Create" /\ Succeeded(i)) => db[role(i)] # NoRole

\* C3: a Create for a role that is in the database never sends a CREATE
\* statement and returns FAILED; when its existence check ran the reason is
\* "User <name> already exists".
C3_NoDoubleCreate ==
    \A i \in Invocations :
        (Verb(i) = "Create" /\ EventRole(event[i]) \in RoleNames
         /\ db[EventRole(event[i])] # NoRole)
        => /\ ~Issued(i, "CREATE")
           /\ Done(i) => Failed(i)
           /\ (Done(i) /\ found[i] # "unknown")
              => /\ found[i] = "present"
                 /\ result[i].Reason = "User " \o EventRole(event[i]) \o " already exists"

\* C3 witness: a Create on an existing role has returned the Conflict.
C3_Witness ==
    \E i \in Invocations :
        /\ Verb(i) = "Create" /\ Done(i) /\ found[i] = "present"
        /\ db[role(i)] # NoRole
        /\ result[i].Reason = "User app already exists"

\* C4: a Delete with a valid descriptor for a role that is not in the database
\* sends no DDL statement, and once its existence check has run it returns
\* SUCCESS with the PhysicalResourceId of its event; any two such Deletes of
\* the same event return the same response.
C4_IdempotentDelete ==
    \A i \in Invocations :
        (Verb(i) = "Delete" /\ Valid(i) /\ db[EventRole(event[i])] = NoRole)
        => /\ ~Issued(i, "DROP") /\ ~Issued(i, "CREATE")
           /\ (Done(i) /\ found[i] # "unknown")
              => /\ found[i] = "absent"
                 /\ result[i] = Response("SUCCESS", "", event[i].PhysicalResourceId)
           /\ \A j \in Invocations :
                 (event[j] = event[i] /\ Done(i) /\ Done(j)
                  /\ found[i] # "unknown" /\ found[j] # "unknown")
                 => result[j] = result[i]

\* C4 witness: the same Delete of an absent role has returned twice.
C4_Witness ==
    \E i, j \in Invocations :
        /\ i # j /\ event[i] = event[j]
        /\ Verb(i) = "Delete" /\ Succeeded(i) /\ Succeeded(j)
        /\ found[i] = "absent" /\ found[j] = "absent"
        /\ stmts[i] = <<"SELECT">>
        /\ result[i].PhysicalResourceId = StrV("postgresql:db1:5432:app?user=app")

\* C5 as claimed: Update returns SUCCESS with the PhysicalResourceId of its
\* event.
C5_UpdateEchoesId ==
    \A i \in Invocations :
        (Verb(i) = "Update" /\ Done(i))
        => /\ Succeeded(i)
           /\ result[i].PhysicalResourceId = event[i].PhysicalResourceId

\* C6 as claimed: every invocation of a handler ends with a response whose
\* Status is SUCCESS or FAILED; no exception leaves a handler.
C6_NoErrorEscapes ==
    \A i \in Invocations :
        Done(i) => (~result[i].raised /\ result[i].Status \in {"SUCCESS", "FAILED"})

\* a Delete with a valid descriptor whose connection failed: connect raised,
\* or a statement raised on the open connection
ConnectionFailed(i) ==
    /\ Verb(i) = "Delete" /\ Valid(i) /\ Done(i)
    /\ connection[i] = "unset" \/ leaving[i].kind = "raise"

\* C7 as claimed: Delete returns SUCCESS with the event's physical id even
\* when the connection fails.
C7_DeleteSucceedsWithoutConnection ==
    \A i \in Invocations :
        ConnectionFailed(i)
        => result[i] = Response("SUCCESS", "", event[i].PhysicalResourceId)

\* C7 amended: when the connection fails, on acquisition or during a
\* statement, Delete returns FAILED with the event's physical id and the
\* error's message as the reason.
C7_DeleteFailsWithPriorId ==
    \A i \in Invocations :
        ConnectionFailed(i)
        => /\ Failed(i)
           /\ result[i].PhysicalResourceId = event[i].PhysicalResourceId
           /\ result[i].Reason
                \in {"Failed to connect, " \o m : m \in ConnectErrors} \cup QueryErrors

\* C7 witness: a Delete replaying a derived id has failed to connect, and
\* another has failed in its DROP.
C7_Witness ==
    \E i, j \in Invocations :
        /\ ConnectionFailed(i) /\ connection[i] = "unset"
        /\ event[i].PhysicalResourceId = StrV("postgresql:db1:5432:app?user=app")
        /\ ConnectionFailed(j) /\ Issued(j, "DROP") /\ leaving[j].kind = "raise"

\* C8 as claimed: of two Creates of the same role whose connections were open
\* together and whose checks both found the role absent, at most one returns
\* SUCCESS; and a Delete whose DROP hit a role that is gone returns FAILED.
C8_RaceLoserFails ==
    /\ \A i, j \in Invocations :
          (i # j /\ {i, j} \in overlapped
           /\ Verb(i) = "Create" /\ Verb(j) = "Create"
           /\ Done(i) /\ Done(j)
           /\ found[i] = "absent" /\ found[j] = "absent"
           /\ role(i) = role(j))
          => ~(Succeeded(i) /\ Succeeded(j))
    /\ \A i \in Invocations :
          (Verb(i) = "Delete" /\ Done(i) /\ leaving[i].kind = "raise") => Failed(i)

\* C9: an invocation acquires at most one connection, only after its event
\* passed validation, and the connection is closed when the handler has
\* returned, however the with block was left.
C9_OneScopedConnection ==
    \A i \in Invocations :
        /\ acquired[i] <= 1
        /\ acquired[i] > 0 => Valid(i)
        /\ connection[i] = "open" => pc[i] \in {"exists", "act", "exit"}
        /\ Done(i) => connection[i] = (IF acquired[i] = 1 THEN "closed" ELSE "unset")

\* C9 witness: one invocation left the with block by the Conflict return,
\* another by an exception, and both have returned.
C9_Witness ==
    \E i, j \in Invocations :
        /\ Done(i) /\ leaving[i].kind = "return" /\ connection[i] = "closed"
        /\ Done(j) /\ leaving[j].kind = "raise" /\ connection[j] = "closed"
        /\ acquired[i] = 1 /\ acquired[j] = 1

\* the four properties the physical id is made of
IdKey(u) == <<with_database(u), host(u), port(u), user(u)>>
Differing(a, b) == Cardinality({k \in 1..4 : IdKey(a)[k] # IdKey(b)[k]})

\* C10: the physical id of a successful Create is a function of the
\* with-database flag, host, port and user alone: two Creates that agree on
\* the four return the same id whatever else differs, and two Creates that
\* differ in one of the four return different ids.
C10_IdFromFourFields ==
    \A i, j \in Invocations :
        (Verb(i) = "Create" /\ Verb(j) = "Create" /\ Succeeded(i) /\ Succeeded(j))
        => /\ Differing(self[i], self[j]) = 0
              => result[i].PhysicalResourceId = result[j].PhysicalResourceId
           /\ Differing(self[i], self[j]) = 1
              => result[i].PhysicalResourceId # result[j].PhysicalResourceId

\* C10 witness: two Creates that differ only in Password returned one id.
C10_Witness ==
    \E i, j \in Invocations :
        /\ Verb(i) = "Create" /\ Verb(j) = "Create" /\ Succeeded(i) /\ Succeeded(j)
        /\ password(self[i]) # password(self[j])
        /\ Differing(self[i], self[j]) = 0
        /\ result[i].PhysicalResourceId = StrV("postgresql:db1:5432:app?user=app")
        /\ result[j].PhysicalResourceId = result[i].PhysicalResourceId

C12_FailedCreateSentinel ==
    \A i \in Invocations :
        (Verb(i) = "Create" /\ Failed(i))
        => /\ result[i].PhysicalResourceId = StrV(SentinelId)
           /\ \A j \in Invocations :
                 (Verb(j) = "Create" /\ Failed(j))
                 => result[j].PhysicalResourceId = result[i].PhysicalResourceId

\* C12 witness: a Create failed in validation and another by Conflict, with
\* different reasons and the same id.
C12_Witness ==
    \E i, j \in Invocations :
        /\ Verb(i) = "Create" /\ Failed(i) /\ self[i] = NoUser
        /\ Verb(j) = "Create" /\ Failed(j) /\ found[j] = "present"
        /\ result[i].Reason # result[j].Reason
        /\ result[i].PhysicalResourceId = result[j].PhysicalResourceId

\* the reason a handler gives for validation message `m`
ReasonOf(ev, m) == IF ev.RequestType = "Create" THEN "Failed to create user, " \o m ELSE m

\* strings of decimal digits among the Port values of the events
DigitStrings == {"5432", "5433"}
PortShapeOk(p) == p.t = "int" \/ (p.t = "str" /\ p.s \in DigitStrings)

\* the message of the first check that fails, in the order User, Password,
\* WithDatabase, Database, Host, Port, Database.User, Database.Password,
\* DBName, with a missing Port standing for the default; "" when none fails
FirstFailing(ev) ==
    LET p == ev.ResourceProperties
        d == p.Database
    IN  IF ~Has(p.User) THEN "User property is required"
        ELSE IF ~Has(p.Password) THEN "Password property is required"
        ELSE IF Has(p.WithDatabase) /\ lower(PyStr(p.WithDatabase)) \notin {"true", "false"}
        THEN "WithDatabase property \"" \o lower(PyStr(p.WithDatabase))
             \o "\" is not a boolean"
        ELSE IF d.t # "dict" THEN "Database property is required and must be an object"
        ELSE IF ~Has(d.Host) THEN "Host is required in Database"
        ELSE IF Has(d.Port) /\ ~PortShapeOk(d.Port)
        THEN "Port is required to be an integer in Database"
        ELSE IF ~Has(d.User) THEN "User is required in Database"
        ELSE IF ~Has(d.Password) THEN "Password is required in Database"
        ELSE IF ~Has(d.DBName) THEN "DBName is required in Database"
        ELSE ""

\* C13 as claimed: an event that fails validation is rejected with the
\* message of the first failing check in the fixed order; a Database that is
\* not an object is rejected citing Database unless User, Password or
\* WithDatabase fails first.
C13_FirstFailingCheckNamed ==
    \A i \in Invocations :
        (Verb(i) \in {"Create", "Delete"} /\ Done(i) /\ self[i] = NoUser)
        => /\ Failed(i)
           /\ result[i].Reason = ReasonOf(event[i], FirstFailing(event[i]))

\* two events that differ at most in WithDatabase, both with a value that reads
\* the same when lowered
SameButSpelling(e1, e2) ==
    /\ [e1 EXCEPT !.ResourceProperties.WithDatabase = Absent]
         = [e2 EXCEPT !.ResourceProperties.WithDatabase = Absent]
    /\ Has(e1.ResourceProperties.WithDatabase) /\ Has(e2.ResourceProperties.WithDatabase)
    /\ lower(PyStr(e1.ResourceProperties.WithDatabase))
         = lower(PyStr(e2.ResourceProperties.WithDatabase))

\* C14 as claimed: two Creates that pass validation and differ only in the
\* spelling of WithDatabase (same value when lowered) return the same id.
C14_SpellingsGiveSameId ==
    \A i, j \in Invocations :
        (Verb(i) = "Create" /\ Verb(j) = "Create" /\ Succeeded(i) /\ Succeeded(j)
         /\ SameButSpelling(event[i], event[j]))
        => result[i].PhysicalResourceId = result[j].PhysicalResourceId

\* C15 as claimed: with every other property in order, a Port that is an
\* integer or a string of digits passes validation, and any other Port is
\* rejected with the message that names Port.
C15_PortIntegerOrDigits ==
    \A i \in Invocations :
        (Verb(i) \in {"Create", "Delete"} /\ Done(i)
         /\ event[i].ResourceProperties.Database.t = "dict"
         /\ Has(event[i].ResourceProperties.Database.Port)
         /\ FirstFailing([event[i] EXCEPT !.ResourceProperties.Database.Port = IntV(1)]) = "")
        => IF PortShapeOk(event[i].ResourceProperties.Database.Port)
           THEN self[i] # NoUser
           ELSE /\ Failed(i)
                /\ result[i].Reason
                     = ReasonOf(event[i], "Port is required to be an integer in Database")

\* C16: an Update goes from delivery to its end in one step that opens no
\* connection, sends no statement and leaves the catalogue of roles as it was.
C16_UpdateTouchesNothing ==
    [][\A i \in Invocations :
          (pc[i] = "idle" /\ event'[i].RequestType = "Update")
          => /\ pc'[i] = "done"
             /\ db' = db
             /\ connection'[i] = "unset" /\ acquired'[i] = 0
             /\ stmts'[i] = <<>> /\ txn'[i] = "none"]_vars

\* C16 witness: an Update has ended while a role was in the database, and
\* it neither connected nor sent anything.
C16_Witness ==
    \E i \in Invocations :
        /\ Verb(i) = "Update" /\ Done(i)
        /\ acquired[i] = 0 /\ stmts[i] = <<>>
        /\ \E n \in RoleNames : db[n] # NoRole

\* C17: an invocation sends its existence check first and at most one
\* mutating statement after it, CREATE only in Create after the check
\* reported absent, DROP only in Delete after the check reported present.
C17_CheckThenAct ==
    \A i \in Invocations :
        /\ stmts[i] \in {<<>>, <<"SELECT">>, <<"SELECT", "CREATE">>, <<"SELECT", "DROP">>}
        /\ Issued(i, "CREATE") => (Verb(i) = "Create" /\ found[i] = "absent")
        /\ Issued(i, "DROP") => (Verb(i) = "Delete" /\ found[i] = "present")

\* C17 witness: a Create has sent SELECT then CREATE and a Delete SELECT
\* then DROP.
C17_Witness ==
    \E i, j \in Invocations :
        /\ Verb(i) = "Create" /\ Done(i) /\ stmts[i] = <<"SELECT", "CREATE">>
        /\ Verb(j) = "Delete" /\ Done(j) /\ stmts[j] = <<"SELECT", "DROP">>

\* the event with Port 5432 and WithDatabase 'true' written out
Explicit(ev) ==
    [ev EXCEPT !.ResourceProperties.WithDatabase = StrV("true"),
               !.ResourceProperties.Database.Port = IntV(5432)]
OmitsDefaults(ev) ==
    /\ ev.ResourceProperties.Database.t = "dict"
    /\ ~Has(ev.ResourceProperties.Database.Port)
    /\ ~Has(ev.ResourceProperties.WithDatabase)

\* C18: a Create that omits Database.Port and WithDatabase is handled like
\* the same event with Port 5432 and WithDatabase 'true': both pass or both
\* fail validation with the same response, the descriptors are equal, and
\* when both succeed they return the same id, made of host, 5432 and user.
C18_DefaultsAsExplicit ==
    \A i, j \in Invocations :
        (Verb(i) = "Create" /\ Done(i) /\ Done(j) /\ OmitsDefaults(event[i])
         /\ event[j] = Explicit(event[i]))
        => /\ self[i] = self[j]
           /\ self[i] = NoUser => result[i] = result[j]
           /\ (Succeeded(i) /\ Succeeded(j))
              => /\ result[i].PhysicalResourceId = result[j].PhysicalResourceId
                 /\ result[i].PhysicalResourceId
                      = StrV("postgresql:" \o PyStr(host(self[i])) \o ":5432:"
                             \o PyStr(user(self[i])) \o "?user=" \o PyStr(user(self[i])))

\* C18 witness: the Create without Port and WithDatabase and the Create with
\* 5432 and 'true' have both succeeded.
C18_Witness ==
    \E i, j \in Invocations :
        /\ Verb(i) = "Create" /\ OmitsDefaults(event[i]) /\ event[j] = Explicit(event[i])
        /\ Succeeded(i) /\ Succeeded(j)
        /\ result[i].PhysicalResourceId = StrV("postgresql:db1:5432:app?user=app")

\* C19 as claimed: an event whose User is the empty string fails validation,
\* so no descriptor is built and no CREATE or DROP is sent for it.
C19_EmptyUserRejected ==
    \A i \in Invocations :
        (Verb(i) \in {"Create", "Delete"} /\ EventRole(event[i]) = "")
        => /\ self[i] = NoUser
           /\ ~Issued(i, "CREATE") /\ ~Issued(i, "DROP")

====
